---- MODULE Spec2Model ----
(***************************************************************************)
(* libcrun-go, src/go_crun.c: the fork-based launch supervisor             *)
(* (go_crun_run_with_pipes), the exit-status resolver (go_crun_wait), the  *)
(* process-wide log callback slot and the wire log relay                   *)
(* (log_write_to_pipe).                                                    *)
(*                                                                         *)
(* Three specifications share the variables:                               *)
(*   Spec      one launch (parent and forked child, step by step) followed *)
(*             by go_crun_wait on the returned handle;                     *)
(*   SpecWait  go_crun_wait against every outcome waitpid can report;      *)
(*   SpecLog   set/reset of the log handler and log emission through the   *)
(*             installed sink, with the frame encoder and a frame decoder. *)
(***************************************************************************)
EXTENDS Integers, Sequences, FiniteSets, TLC

VARIABLES
  \* ---- go_crun_run_with_pipes: the calling (parent) process
  pfd,           \* parent's descriptor table: fd -> endpoint (or Closed)
  args,          \* stdin_fd, stdout_fd, stderr_fd, log_fd of the call
  ppc,           \* parent's position in go_crun_run_with_pipes
  error_pipe,    \* int error_pipe[2] (<<read end, write end>>)
  n,             \* ssize_t n: result of the parent's read
  child_errno,   \* int child_errno
  ret,           \* return value and *err of go_crun_run_with_pipes
  out_pid,       \* the caller's *out_pid
  \* ---- the forked child
  cfd,           \* child's descriptor table
  cpc,           \* child's position in the child branch
  child_handler, \* the child's copy of libcrun's output handler
  sync,          \* the SyncPipe's buffered 4-byte values
  \* ---- the kernel's view of the child process
  cstate,        \* "none" | "alive" | "zombie" | "reaped"
  wstatus,       \* wait status word of the terminated child
  \* ---- history of the launch
  dup_err,       \* errno of the checked dup2 that failed in the child (0: none)
  null_err,      \* the failed call of the /dev/null redirection and its errno
  eng,           \* the engine invocation: invoked, descriptors 0..2, result
  killed_at,     \* phase in which a signal killed the child ("no": none)
  intr,          \* signals that have interrupted a blocking call so far
  \* ---- go_crun_wait
  wpc,           \* position in go_crun_wait
  exit_code,     \* the caller's *exit_code
  wret,          \* return value and *err of go_crun_wait
  \* ---- logging
  go_log_handle,   \* static uintptr_t go_log_handle
  output_handler,  \* libcrun's installed output handler and its arg
  lastOp,          \* last handler operation performed (history)
  stream,          \* bytes written to the LogChannel
  sent,            \* LogRecords emitted through the pipe writer (history)
  goCalls,         \* handles passed to goLogCallback (history)
  \* ---- go_crun_err_to_cstr
  err_slot,        \* the caller's libcrun_error_t: 0 (NULL) or an error object
  err_heap,        \* the error objects: state, status, msg, times released
  cstr,            \* the last call: its arguments, returned string, *status
  \* ---- go_crun_list
  list_pc,         \* position in go_crun_list
  lst,             \* the engine's container list: names, state, times released
  arr,             \* char **arr: state of the array and its cells
  list_i,          \* int i of the copy loop
  list_ret,        \* return value, error, *out and *out_len
  \* ---- go_crun_run_with_pipes called from several threads of one process
  shared_fd,       \* the process's descriptor table, shared by its threads
  lpc,             \* per launch: the calling thread's position
  lpipe,           \* per launch: int error_pipe[2]
  ln,              \* per launch: ssize_t n of the parent's read
  kfd,             \* per launch: its child's descriptor table
  kpc,             \* per launch: its child's position
  kbuf,            \* per launch: values buffered in its SyncPipe
  \* ---- a log emission racing with set/reset calls of another thread
  cb_pc,           \* the emitting thread's position in go_crun_log_callback
  cb_seen,         \* go_log_handle as the callback's test loaded it
  ctl_pc,          \* the other thread's position in its set or reset call
  registered       \* nonzero handles given to go_crun_set_log_handler (history)

launchVars == <<pfd, args, ppc, error_pipe, n, child_errno, ret, out_pid,
                cfd, cpc, child_handler, sync, dup_err, null_err, eng, killed_at>>
procVars == <<cstate, wstatus>>
waitVars == <<wpc, exit_code, wret>>
logVars == <<go_log_handle, output_handler, lastOp, stream, sent, goCalls>>
errVars == <<err_slot, err_heap, cstr>>
listVars == <<list_pc, lst, arr, list_i, list_ret>>
concVars == <<shared_fd, lpc, lpipe, ln, kfd, kpc, kbuf>>
raceVars == <<cb_pc, cb_seen, ctl_pc, registered>>
otherVars == <<errVars, listVars, concVars, raceVars>>
coreVars == <<launchVars, procVars, intr, waitVars, logVars>>
vars == <<launchVars, procVars, intr, waitVars, logVars, otherVars>>

(***************************************************************************)
(* Bounds of the model.                                                    *)
(***************************************************************************)
\* Highest descriptor number of a process's descriptor table.
MaxFd == 8
\* Signals that interrupt one blocking call (EINTR) before it completes.
MaxIntr == 1
\* Longest message buffer handed to a log sink, its terminating NUL included.
MaxBuf == 3
\* Log records emitted through one sink.
MaxEmit == 2
\* Error objects created for one caller.
MaxErrs == 2
\* Containers the engine enumerates.
MaxNames == 2
\* Launches running at the same time from threads of one process.
MaxLaunches == 2

(***************************************************************************)
(* Descriptors and endpoints.                                              *)
(***************************************************************************)
STDIN_FILENO == 0
STDOUT_FILENO == 1
STDERR_FILENO == 2
EINTR == 4
EBADF == 9
ECHILD == 10
SIGPIPE == 13

FDs == 0..MaxFd
Closed == "closed"
\* Descriptors the caller holds open when it calls: the inherited standard
\* streams and four pipes of its own (three for streams, one LogChannel).
CallerFds == [fd \in FDs |->
                CASE fd = 0 -> "tty_in"
                  [] fd = 1 -> "tty_out"
                  [] fd = 2 -> "tty_err"
                  [] fd = 3 -> "A"
                  [] fd = 4 -> "B"
                  [] fd = 5 -> "C"
                  [] fd = 6 -> "L"
                  [] OTHER -> Closed]
NoFds == [fd \in FDs |-> Closed]
OpenFds(tbl) == {fd \in FDs : tbl[fd] # Closed}
FreeFds(tbl) == {fd \in FDs : tbl[fd] = Closed}
\* The kernel hands out the lowest free descriptor number (-1: none left).
LowestFree(tbl) ==
  IF FreeFds(tbl) = {} THEN -1
  ELSE CHOOSE fd \in FreeFds(tbl) : \A g \in FreeFds(tbl) : fd <= g

\* close(fd)
Close(tbl, fd) == IF fd \in FDs THEN [tbl EXCEPT ![fd] = Closed] ELSE tbl
\* dup2(oldfd, newfd) when it succeeds: newfd refers to oldfd's endpoint
\* (dup2 of a descriptor onto itself changes nothing).
Dup2(tbl, old, new) == IF old = new THEN tbl ELSE [tbl EXCEPT ![new] = tbl[old]]
\* errno values dup2(oldfd, newfd) can end with (0: success): EBADF when oldfd
\* is not open, otherwise success or a failure of the call (EINTR).
Dup2Outcomes(tbl, old) ==
  IF old \notin FDs \/ tbl[old] = Closed THEN {EBADF} ELSE {0, EINTR}

\* libcrun_make_error(err, status, msg): fills *err, returns -status - 1.
libcrun_make_error(status, msg) ==
  [rc |-> 0 - status - 1, status |-> status, msg |-> msg]
Success == [rc |-> 0, status |-> 0, msg |-> ""]
NotReturned == [rc |-> 0, status |-> 0, msg |-> "not returned"]

NoArgs == [stdin_fd |-> -1, stdout_fd |-> -1, stderr_fd |-> -1, log_fd |-> -1]
NoEngine == [invoked |-> FALSE, tbl |-> NoFds, rc |-> 0]
NoNullErr == [call |-> "none", errno |-> 0]
\* libcrun starts with its stderr writer installed (arg NULL, written 0).
HandlerDefault == [fn |-> "log_write_to_stderr", arg |-> 0]

\* Processes holding the SyncPipe's write end (parent, live child).
Writers(p, c) == {fd \in FDs : p[fd] = "syncW"} \cup {fd \in FDs : c[fd] = "syncW"}
Readers(p, c) == {fd \in FDs : p[fd] = "syncR"} \cup {fd \in FDs : c[fd] = "syncR"}

(***************************************************************************)
(* go_crun_run_with_pipes: the parent.                                     *)
(***************************************************************************)
\* Descriptor values a caller passes for a stream: -1 (not supplied) or one it
\* holds open that is not its LogChannel.
ArgFds == {-1} \cup {fd \in OpenFds(CallerFds) : CallerFds[fd] # "L"}
\* Descriptor values a caller passes as log_fd: -1, its LogChannel, or the
\* number of a standard descriptor or of a stream pipe.
LogArgFds == {-1, 1, 3, 6}
\* Results the engine (libcrun_container_run) can hand back: a failure, exit
\* statuses of the container, and plain ints above one byte.
EngineRcs == {-1, 0, 7, 256}
\* Signals that can kill the child from outside (SIGKILL).
KillSigs == {9}

\* The caller invokes go_crun_run_with_pipes(ctx, container, flags, stdin_fd,
\* stdout_fd, stderr_fd, log_fd, out_pid, err).
Call(si, so, se, lg) ==
  /\ ppc = "idle"
  /\ args' = [stdin_fd |-> si, stdout_fd |-> so, stderr_fd |-> se, log_fd |-> lg]
  /\ ppc' = "pipe"
  /\ UNCHANGED <<pfd, error_pipe, n, child_errno, ret, out_pid, cfd, cpc,
                 child_handler, sync, dup_err, null_err, eng, killed_at>>
  /\ UNCHANGED <<procVars, intr, waitVars, logVars, otherVars>>

\* pipe(error_pipe): the two lowest free descriptors, read end first.
PipeOk ==
  /\ ppc = "pipe"
  /\ Cardinality(FreeFds(pfd)) >= 2
  /\ LET r == LowestFree(pfd)
         w == LowestFree([pfd EXCEPT ![r] = "syncR"])
     IN /\ error_pipe' = <<r, w>>
        /\ pfd' = [pfd EXCEPT ![r] = "syncR", ![w] = "syncW"]
  /\ ppc' = "fork"
  /\ UNCHANGED <<args, n, child_errno, ret, out_pid, cfd, cpc,
                 child_handler, sync, dup_err, null_err, eng, killed_at>>
  /\ UNCHANGED <<procVars, intr, waitVars, logVars, otherVars>>

\* pipe() < 0: return libcrun_make_error(err, errno, "pipe failed").
PipeFail ==
  /\ ppc = "pipe"
  /\ \E e \in {23, 24} :
       ret' = libcrun_make_error(e, "pipe failed")
  /\ ppc' = "returned"
  /\ UNCHANGED <<pfd, args, error_pipe, n, child_errno, out_pid, cfd, cpc,
                 child_handler, sync, dup_err, null_err, eng, killed_at>>
  /\ UNCHANGED <<procVars, intr, waitVars, logVars, otherVars>>

\* fork() > 0 in the parent; the child starts with a copy of the parent's
\* descriptor table and of its output handler.
ForkOk ==
  /\ ppc = "fork"
  /\ cfd' = pfd
  /\ child_handler' = output_handler
  /\ cpc' = "close_r"
  /\ cstate' = "alive"
  /\ ppc' = "close_w"
  /\ UNCHANGED <<pfd, args, error_pipe, n, child_errno, ret, out_pid,
                 sync, dup_err, null_err, eng, killed_at>>
  /\ UNCHANGED <<wstatus, intr, waitVars, logVars, otherVars>>

\* fork() < 0: close both ends, return "fork failed".
ForkFail ==
  /\ ppc = "fork"
  /\ pfd' = Close(Close(pfd, error_pipe[1]), error_pipe[2])
  /\ \E e \in {11, 12} :
       ret' = libcrun_make_error(e, "fork failed")
  /\ ppc' = "returned"
  /\ UNCHANGED <<args, error_pipe, n, child_errno, out_pid, cfd, cpc,
                 child_handler, sync, dup_err, null_err, eng, killed_at>>
  /\ UNCHANGED <<procVars, intr, waitVars, logVars, otherVars>>

\* close(error_pipe[1]) in the parent.
ParentCloseWrite ==
  /\ ppc = "close_w"
  /\ pfd' = Close(pfd, error_pipe[2])
  /\ ppc' = "read"
  /\ UNCHANGED <<args, error_pipe, n, child_errno, ret, out_pid, cfd, cpc,
                 child_handler, sync, dup_err, null_err, eng, killed_at>>
  /\ UNCHANGED <<procVars, intr, waitVars, logVars, otherVars>>

\* read(error_pipe[0], &child_errno, 4) returns the buffered 4-byte value.
ParentReadValue ==
  /\ ppc = "read"
  /\ sync # <<>>
  /\ n' = 4
  /\ child_errno' = Head(sync)
  /\ sync' = Tail(sync)
  /\ ppc' = "check"
  /\ UNCHANGED <<pfd, args, error_pipe, ret, out_pid, cfd, cpc,
                 child_handler, dup_err, null_err, eng, killed_at>>
  /\ UNCHANGED <<procVars, intr, waitVars, logVars, otherVars>>

\* read() returns 0: the pipe is empty and no process holds its write end.
ParentReadEof ==
  /\ ppc = "read"
  /\ sync = <<>>
  /\ Writers(pfd, cfd) = {}
  /\ n' = 0
  /\ ppc' = "check"
  /\ UNCHANGED <<pfd, args, error_pipe, child_errno, ret, out_pid, cfd, cpc,
                 child_handler, sync, dup_err, null_err, eng, killed_at>>
  /\ UNCHANGED <<procVars, intr, waitVars, logVars, otherVars>>

\* read() returns -1 with EINTR: a signal handler ran while the read blocked.
ParentReadIntr ==
  /\ ppc = "read"
  /\ sync = <<>>
  /\ Writers(pfd, cfd) # {}
  /\ intr < MaxIntr
  /\ intr' = intr + 1
  /\ n' = -1
  /\ ppc' = "check"
  /\ UNCHANGED <<pfd, args, error_pipe, child_errno, ret, out_pid, cfd, cpc,
                 child_handler, sync, dup_err, null_err, eng, killed_at>>
  /\ UNCHANGED <<procVars, waitVars, logVars, otherVars>>

\* n != sizeof(child_errno)
ShortRead_negative(nn) == nn < 0
ShortRead(nn) == nn # 4

\* Descriptors the parent closes after the read: close(error_pipe[0]).
ParentAfterRead_closesStdin(tbl, ep, a) == Close(Close(tbl, ep[1]), a.stdin_fd)
ParentAfterRead_keepsReadEnd(tbl, ep, a) == tbl
ParentAfterRead(tbl, ep, a) == Close(tbl, ep[1])

\* close(error_pipe[0]); then the three outcomes of the handshake.
ParentCheck ==
  /\ ppc = "check"
  /\ pfd' = ParentAfterRead(pfd, error_pipe, args)
  /\ IF ShortRead(n)
       THEN /\ ppc' = "reap_short"
            /\ UNCHANGED <<out_pid, ret>>
       ELSE IF child_errno # 0
         THEN /\ ppc' = "reap_setup"
              /\ UNCHANGED <<out_pid, ret>>
         ELSE /\ out_pid' = "pid"
              /\ ret' = Success
              /\ ppc' = "returned"
  /\ UNCHANGED <<args, error_pipe, n, child_errno, cfd, cpc,
                 child_handler, sync, dup_err, null_err, eng, killed_at>>
  /\ UNCHANGED <<procVars, intr, waitVars, logVars, otherVars>>

\* The error returned after waitpid(pid, NULL, 0) in a failure branch.
LaunchError(pos, ce) ==
  IF pos = "reap_short"
    THEN libcrun_make_error(0, "child process failed unexpectedly")
    ELSE libcrun_make_error(ce, "child process setup failed")

\* waitpid(pid, NULL, 0) reaps the terminated child; the error is returned.
ParentReap ==
  /\ ppc \in {"reap_short", "reap_setup"}
  /\ cstate = "zombie"
  /\ cstate' = "reaped"
  /\ ret' = LaunchError(ppc, child_errno)
  /\ ppc' = "returned"
  /\ UNCHANGED <<pfd, args, error_pipe, n, child_errno, out_pid, cfd, cpc,
                 child_handler, sync, dup_err, null_err, eng, killed_at>>
  /\ UNCHANGED <<wstatus, intr, waitVars, logVars, otherVars>>

\* waitpid(pid, NULL, 0) returns -1 with EINTR while the child still runs; its
\* result is not looked at and the error is returned all the same.
ParentReapIntr ==
  /\ ppc \in {"reap_short", "reap_setup"}
  /\ cstate = "alive"
  /\ intr < MaxIntr
  /\ intr' = intr + 1
  /\ ret' = LaunchError(ppc, child_errno)
  /\ ppc' = "returned"
  /\ UNCHANGED <<pfd, args, error_pipe, n, child_errno, out_pid, cfd, cpc,
                 child_handler, sync, dup_err, null_err, eng, killed_at>>
  /\ UNCHANGED <<procVars, waitVars, logVars, otherVars>>

(***************************************************************************)
(* go_crun_run_with_pipes: the forked child.                               *)
(***************************************************************************)
childVarsRest == <<pfd, args, ppc, error_pipe, n, child_errno, ret, out_pid>>

\* The child process ends: the kernel closes its descriptors and keeps the
\* wait status word for the parent.
\* _exit(code): the low 8 bits of code, in bits 8..15 of the status word.
ExitStatusWord(code) == (code % 256) * 256
\* Death by signal sig: sig in bits 0..6 of the status word, bit 7 set when a
\* core was dumped (core = 1).
SignalStatusWord(sig, core) == sig + 128 * core

\* Phase of the child branch a position belongs to: "setup" up to and
\* including the handshake write still to be done, "handshake" once the value
\* is written, "engine" from the engine's invocation on.
Phase(pos) ==
  IF pos \in {"close_r", "log", "stdin", "stdout", "stderr", "fail", "exit1",
              "write0"}
    THEN "setup"
    ELSE IF pos \in {"close_w", "run"} THEN "handshake" ELSE "engine"

\* close(error_pipe[0]) first thing in the child.
ChildCloseRead ==
  /\ cstate = "alive" /\ cpc = "close_r"
  /\ cfd' = Close(cfd, error_pipe[1])
  /\ cpc' = "log"
  /\ UNCHANGED <<childVarsRest, child_handler, sync, dup_err, null_err, eng, killed_at>>
  /\ UNCHANGED <<procVars, intr, waitVars, logVars, otherVars>>

\* The sink the child installs: crun_set_output_handler(log_write_to_pipe,
\* (void *)(intptr_t)log_fd) if log_fd >= 0, else (log_write_to_stderr, NULL).
ChildSink_keepsInherited(log_fd) ==
  IF log_fd >= 0 THEN [fn |-> "log_write_to_pipe", arg |-> log_fd]
                 ELSE [fn |-> "go_crun_log_callback", arg |-> 0]
ChildSink(log_fd) ==
  IF log_fd >= 0 THEN [fn |-> "log_write_to_pipe", arg |-> log_fd]
                 ELSE [fn |-> "log_write_to_stderr", arg |-> 0]

ChildSetLogHandler ==
  /\ cstate = "alive" /\ cpc = "log"
  /\ child_handler' = ChildSink(args.log_fd)
  /\ cpc' = "stdin"
  /\ UNCHANGED <<childVarsRest, cfd, sync, dup_err, null_err, eng, killed_at>>
  /\ UNCHANGED <<procVars, intr, waitVars, logVars, otherVars>>

\* dup2(fd, target) succeeded; close(fd).
RedirectStream(tbl, fd, target) == Close(Dup2(tbl, fd, target), fd)

\* open("/dev/null", O_RDONLY) gave null_fd >= 0: dup2(null_fd, STDIN_FILENO)
\* (its result is not looked at: e is its errno, 0 for success), close(null_fd).
RedirectNull(tbl, null_fd, e) ==
  Close(IF e = 0 THEN Dup2([tbl EXCEPT ![null_fd] = "null"], null_fd, STDIN_FILENO)
                 ELSE [tbl EXCEPT ![null_fd] = "null"], null_fd)

\* Redirect stdin, a descriptor being supplied.
ChildStdinSupplied ==
  /\ cstate = "alive" /\ cpc = "stdin"
  /\ args.stdin_fd >= 0
  /\ \E e \in Dup2Outcomes(cfd, args.stdin_fd) :
       IF e # 0
         THEN /\ dup_err' = e
              /\ cpc' = "fail"
              /\ UNCHANGED cfd
         ELSE /\ cfd' = RedirectStream(cfd, args.stdin_fd, STDIN_FILENO)
              /\ cpc' = "stdout"
              /\ UNCHANGED dup_err
  /\ UNCHANGED <<childVarsRest, child_handler, sync, null_err, eng, killed_at>>
  /\ UNCHANGED <<procVars, intr, waitVars, logVars, otherVars>>

\* No stdin descriptor supplied: int null_fd = open("/dev/null", O_RDONLY)
\* gives the lowest free descriptor; if (null_fd >= 0) { dup2(null_fd,
\* STDIN_FILENO); close(null_fd); }.
ChildStdinNull ==
  /\ cstate = "alive" /\ cpc = "stdin"
  /\ args.stdin_fd < 0
  /\ LowestFree(cfd) >= 0
  /\ \E e \in Dup2Outcomes([cfd EXCEPT ![LowestFree(cfd)] = "null"],
                           LowestFree(cfd)) :
       /\ cfd' = RedirectNull(cfd, LowestFree(cfd), e)
       /\ null_err' = IF e = 0 THEN NoNullErr ELSE [call |-> "dup2", errno |-> e]
  /\ cpc' = "stdout"
  /\ UNCHANGED <<childVarsRest, child_handler, sync, dup_err, eng, killed_at>>
  /\ UNCHANGED <<procVars, intr, waitVars, logVars, otherVars>>

\* No stdin descriptor supplied and open("/dev/null") failed (null_fd < 0):
\* nothing is done and nothing is reported.
ChildStdinNullOpenFails ==
  /\ cstate = "alive" /\ cpc = "stdin"
  /\ args.stdin_fd < 0
  /\ \E e \in {24} : null_err' = [call |-> "open", errno |-> e]
  /\ cpc' = "stdout"
  /\ UNCHANGED <<childVarsRest, cfd, child_handler, sync, dup_err, eng, killed_at>>
  /\ UNCHANGED <<procVars, intr, waitVars, logVars, otherVars>>

\* Redirect stdout (pos "stdout") or stderr (pos "stderr").
ChildRedirectOut(pos, fd, target, next) ==
  /\ cstate = "alive" /\ cpc = pos
  /\ IF fd >= 0
       THEN \E e \in Dup2Outcomes(cfd, fd) :
              IF e # 0
                THEN /\ dup_err' = e
                     /\ cpc' = "fail"
                     /\ UNCHANGED cfd
                ELSE /\ cfd' = RedirectStream(cfd, fd, target)
                     /\ cpc' = next
                     /\ UNCHANGED dup_err
       ELSE /\ cpc' = next
            /\ UNCHANGED <<cfd, dup_err>>
  /\ UNCHANGED <<childVarsRest, child_handler, sync, null_err, eng, killed_at>>
  /\ UNCHANGED <<procVars, intr, waitVars, logVars, otherVars>>

ChildStdout == ChildRedirectOut("stdout", args.stdout_fd, STDOUT_FILENO, "stderr")
ChildStderr == ChildRedirectOut("stderr", args.stderr_fd, STDERR_FILENO, "write0")

\* What write(error_pipe[1], &v, 4) in the child can do: put the value into
\* the SyncPipe; with no reader left raise SIGPIPE (fatal by default) or, the
\* signal being ignored, fail with EPIPE; or, error_pipe[1] no longer being
\* the SyncPipe, write elsewhere or fail (the result is not looked at).
SyncWriteOutcomes(p, c, w) ==
  IF c[w] = "syncW"
    THEN IF Readers(p, c) # {} THEN {"written"} ELSE {"sigpipe", "epipe"}
    ELSE {"lost"}

\* A checked dup2 failed: int e = errno; write(error_pipe[1], &e, 4).
ChildFail ==
  /\ cstate = "alive" /\ cpc = "fail"
  /\ \E o \in SyncWriteOutcomes(pfd, cfd, error_pipe[2]) :
       /\ sync' = IF o = "written" THEN Append(sync, dup_err) ELSE sync
       /\ IF o = "sigpipe"
            THEN /\ cstate' = "zombie"
                 /\ wstatus' = SignalStatusWord(SIGPIPE, 0)
                 /\ killed_at' = Phase(cpc)
                 /\ cfd' = NoFds
                 /\ cpc' = "done"
            ELSE /\ cpc' = "exit1"
                 /\ UNCHANGED <<cstate, wstatus, killed_at, cfd>>
  /\ UNCHANGED <<childVarsRest, child_handler, dup_err, null_err, eng>>
  /\ UNCHANGED <<intr, waitVars, logVars, otherVars>>

\* _exit(1) after the failed dup2's errno was written.
ChildFailExit ==
  /\ cstate = "alive" /\ cpc = "exit1"
  /\ cstate' = "zombie"
  /\ wstatus' = ExitStatusWord(1)
  /\ cfd' = NoFds
  /\ cpc' = "done"
  /\ UNCHANGED <<childVarsRest, child_handler, sync, dup_err, null_err, eng, killed_at>>
  /\ UNCHANGED <<intr, waitVars, logVars, otherVars>>

\* Signal success to the parent: int zero = 0; write(error_pipe[1], &zero, 4).
ChildWriteZero ==
  /\ cstate = "alive" /\ cpc = "write0"
  /\ \E o \in SyncWriteOutcomes(pfd, cfd, error_pipe[2]) :
       /\ sync' = IF o = "written" THEN Append(sync, 0) ELSE sync
       /\ IF o = "sigpipe"
            THEN /\ cstate' = "zombie"
                 /\ wstatus' = SignalStatusWord(SIGPIPE, 0)
                 /\ killed_at' = Phase(cpc)
                 /\ cfd' = NoFds
                 /\ cpc' = "done"
            ELSE /\ cpc' = "close_w"
                 /\ UNCHANGED <<cstate, wstatus, killed_at, cfd>>
  /\ UNCHANGED <<childVarsRest, child_handler, dup_err, null_err, eng>>
  /\ UNCHANGED <<intr, waitVars, logVars, otherVars>>

\* close(error_pipe[1]) in the child.
ChildCloseWrite ==
  /\ cstate = "alive" /\ cpc = "close_w"
  /\ cfd' = Close(cfd, error_pipe[2])
  /\ cpc' = "run"
  /\ UNCHANGED <<childVarsRest, child_handler, sync, dup_err, null_err, eng, killed_at>>
  /\ UNCHANGED <<procVars, intr, waitVars, logVars, otherVars>>

\* int rc = libcrun_container_run(ctx, container, flags, &child_err): the
\* engine runs with the child's descriptors as they are now and returns rc.
ChildEngine ==
  /\ cstate = "alive" /\ cpc = "run"
  /\ \E rc \in EngineRcs :
       eng' = [invoked |-> TRUE, tbl |-> cfd, rc |-> rc]
  /\ cpc' = "exit"
  /\ UNCHANGED <<childVarsRest, cfd, child_handler, sync, dup_err, null_err, killed_at>>
  /\ UNCHANGED <<procVars, intr, waitVars, logVars, otherVars>>

\* The argument of _exit: rc < 0 ? 1 : rc.
ChildExitCode_raw(rc) == rc
ChildExitCode(rc) == IF rc < 0 THEN 1 ELSE rc

\* _exit(rc < 0 ? 1 : rc).
ChildExit ==
  /\ cstate = "alive" /\ cpc = "exit"
  /\ cstate' = "zombie"
  /\ wstatus' = ExitStatusWord(ChildExitCode(eng.rc))
  /\ cfd' = NoFds
  /\ cpc' = "done"
  /\ UNCHANGED <<childVarsRest, child_handler, sync, dup_err, null_err, eng, killed_at>>
  /\ UNCHANGED <<intr, waitVars, logVars, otherVars>>

\* A signal from outside kills the child wherever it is.
ChildKilled ==
  /\ cstate = "alive"
  /\ \E sig \in KillSigs : wstatus' = SignalStatusWord(sig, 0)
  /\ cstate' = "zombie"
  /\ killed_at' = Phase(cpc)
  /\ cfd' = NoFds
  /\ cpc' = "done"
  /\ UNCHANGED <<childVarsRest, child_handler, sync, dup_err, null_err, eng>>
  /\ UNCHANGED <<intr, waitVars, logVars, otherVars>>

(***************************************************************************)
(* go_crun_wait.                                                           *)
(***************************************************************************)
\* The value *exit_code holds before the call (no status decodes to it).
NoExitCode == 0 - 99

\* <sys/wait.h> on the wait status word, as used by go_crun_wait.
WTERMSIG(status) == status % 128
WEXITSTATUS(status) == (status \div 256) % 256
WIFEXITED(status) == WTERMSIG(status) = 0
\* ((signed char) ((status & 0x7f) + 1) >> 1) > 0
WIFSIGNALED(status) == WTERMSIG(status) >= 1 /\ WTERMSIG(status) <= 126

\* The exit code go_crun_wait stores for a wait status.
DecodeStatus_noOffset(status) ==
  IF WIFEXITED(status) THEN WEXITSTATUS(status)
  ELSE IF WIFSIGNALED(status) THEN WTERMSIG(status)
  ELSE -1
DecodeStatus(status) ==
  IF WIFEXITED(status) THEN WEXITSTATUS(status)
  ELSE IF WIFSIGNALED(status) THEN 128 + WTERMSIG(status)
  ELSE -1

\* while (ret < 0 && errno == EINTR)
WaitRetry_never(r, e) == FALSE
WaitRetry(r, e) == r < 0 /\ e = EINTR

\* The caller invokes go_crun_wait(pid, &exit_code, err).
WaitCall ==
  /\ wpc = "idle"
  /\ wpc' = "waitpid"
  /\ UNCHANGED <<exit_code, wret>>
  /\ UNCHANGED <<launchVars, procVars, intr, logVars, otherVars>>

\* waitpid(pid, &status, 0) returned -1 with errno e: loop again on EINTR,
\* otherwise return libcrun_make_error(err, errno, "waitpid failed").
WaitpidFailed(e) ==
  /\ IF WaitRetry(-1, e)
       THEN UNCHANGED <<wpc, wret>>
       ELSE /\ wret' = libcrun_make_error(e, "waitpid failed")
            /\ wpc' = "done"
  /\ UNCHANGED exit_code
  /\ UNCHANGED <<launchVars, procVars, logVars, otherVars>>

\* A signal handler runs while waitpid blocks on the running child.
WaitpidIntr ==
  /\ wpc = "waitpid"
  /\ cstate = "alive"
  /\ intr < MaxIntr
  /\ intr' = intr + 1
  /\ WaitpidFailed(EINTR)

\* pid is not (or no longer) a child of the caller to wait for.
WaitpidNoChild ==
  /\ wpc = "waitpid"
  /\ cstate \in {"none", "reaped"}
  /\ UNCHANGED intr
  /\ WaitpidFailed(ECHILD)

\* waitpid returned pid: the child is reaped and its status decoded.
WaitpidReap ==
  /\ wpc = "waitpid"
  /\ cstate = "zombie"
  /\ cstate' = "reaped"
  /\ exit_code' = DecodeStatus(wstatus)
  /\ wret' = Success
  /\ wpc' = "done"
  /\ UNCHANGED <<wstatus, intr>>
  /\ UNCHANGED <<launchVars, logVars, otherVars>>

(***************************************************************************)
(* go_crun_err_to_cstr.                                                    *)
(***************************************************************************)
ErrIds == 1..MaxErrs
\* status of an error: 0 (message only), ENOENT, EACCES.
ErrStatuses == {0, 2, 13}
ErrMsgs == {"", "pipe failed"}
NoObject == [state |-> "unallocated", status |-> 0, msg |-> "", released |-> 0]
\* The caller's string and int before any call (no call yields this status).
NoStatus == 0 - 1
NoCstr == [called |-> FALSE, id |-> 0, status_arg |-> FALSE,
           p |-> <<>>, status |-> NoStatus, releases |-> 0]

\* strerror(status)
strerror(status) ==
  CASE status = 2 -> "No such file or directory"
    [] status = 13 -> "Permission denied"
    [] OTHER -> "Unknown error"

\* The string built for an error: strdup(msg) when status is 0, otherwise
\* asprintf(&p, "%s: %s", msg, strerror(status)).
ErrorText(status, msg) ==
  IF status = 0 THEN msg ELSE msg \o ": " \o strerror(status)

\* libcrun_error_release(err): frees the error *err refers to and stores NULL
\* in *err; a NULL *err is left alone.
libcrun_error_release(heap, slot) ==
  IF slot = 0 THEN [heap |-> heap, slot |-> 0]
  ELSE [heap |-> [heap EXCEPT ![slot].state = "freed", ![slot].released = @ + 1],
        slot |-> 0]

\* Times error objects have been released.
RECURSIVE TotalReleased(_, _)
TotalReleased(heap, i) ==
  IF i = 0 THEN 0 ELSE heap[i].released + TotalReleased(heap, i - 1)

\* Whether libcrun_error_release(err) is reached once the string p (<<>>: NULL)
\* has been built: it is, on every path.
ReleasedAfterConvert_onlyWithString(p) == p # <<>>
ReleasedAfterConvert(p) == TRUE

\* An engine or supervisor operation fails: libcrun_make_error stores a new
\* error object in the caller's empty libcrun_error_t.
EngineError(status, msg) ==
  /\ err_slot = 0
  /\ \E id \in ErrIds :
       /\ err_heap[id].state = "unallocated"
       /\ \A j \in ErrIds : j < id => err_heap[j].state # "unallocated"
       /\ err_heap' = [err_heap EXCEPT ![id] = [state |-> "live", status |-> status,
                                                msg |-> msg, released |-> 0]]
       /\ err_slot' = id
  /\ UNCHANGED cstr
  /\ UNCHANGED <<coreVars, listVars, concVars, raceVars>>

\* go_crun_err_to_cstr(err, status): err is NULL or the address of the caller's
\* libcrun_error_t, status is NULL or the address of an int; alloc_ok tells
\* whether strdup / asprintf get their memory.
go_crun_err_to_cstr(err_arg, status_arg, alloc_ok) ==
  /\ IF ~err_arg \/ err_slot = 0
       THEN /\ cstr' = [called |-> TRUE, id |-> 0, status_arg |-> status_arg,
                        p |-> <<>>,
                        status |-> IF status_arg THEN 0 ELSE cstr.status,
                        releases |-> 0]
            /\ UNCHANGED <<err_slot, err_heap>>
       ELSE LET e == err_heap[err_slot]
                p == IF alloc_ok THEN <<ErrorText(e.status, e.msg)>> ELSE <<>>
                after == IF ReleasedAfterConvert(p)
                           THEN libcrun_error_release(err_heap, err_slot)
                           ELSE [heap |-> err_heap, slot |-> err_slot]
            IN /\ err_heap' = after.heap
               /\ err_slot' = after.slot
               /\ cstr' = [called |-> TRUE, id |-> err_slot,
                           status_arg |-> status_arg, p |-> p,
                           status |-> IF status_arg THEN e.status ELSE cstr.status,
                           releases |-> TotalReleased(after.heap, MaxErrs)
                                          - TotalReleased(err_heap, MaxErrs)]
  /\ UNCHANGED <<coreVars, listVars, concVars, raceVars>>

InitErr ==
  /\ err_slot = 0 /\ err_heap = [i \in ErrIds |-> NoObject] /\ cstr = NoCstr
(***************************************************************************)
(* go_crun_list.                                                           *)
(***************************************************************************)
\* it->name of a list node: NULL (<<>>) or a string.
NodeNames == {<<>>, <<"c1">>, <<"c2">>}
\* The lists libcrun_get_containers_list can hand back.
ContainerLists == UNION {[1..k -> NodeNames] : k \in 0..MaxNames}
NoList == [names |-> <<>>, state |-> "none", released |-> 0]
NoArr == [state |-> "none", cells |-> <<>>]
NoListRet == [returned |-> FALSE, ret |-> NotReturned,
              out |-> NoArr, out_len |-> 0 - 1]

\* errno after calloc((size_t)n, sizeof(char*)) returned NULL: ENOMEM; for a
\* request of zero elements NULL may be a plain result, errno being what it was.
CallocErrnos(nn) == IF nn = 0 THEN {0, 12} ELSE {12}

\* strdup(it->name ? it->name : ""): the copy (<<>>: NULL, no memory).
strdup_name(name, ok) ==
  IF ~ok THEN <<>> ELSE IF name = <<>> THEN <<"">> ELSE name

\* The caller invokes go_crun_list(state_root, &out, &out_len, err) and
\* libcrun_get_containers_list(&lst, state_root, err) succeeds with a list.
ListEnumOk(names) ==
  /\ list_pc = "idle"
  /\ lst' = [names |-> names, state |-> "live", released |-> 0]
  /\ list_pc' = "calloc"
  /\ UNCHANGED <<arr, list_i, list_ret>>
  /\ UNCHANGED <<coreVars, errVars, concVars, raceVars>>

\* libcrun_get_containers_list fails: if (rc < 0) return rc.
ListEnumFails ==
  /\ list_pc = "idle"
  /\ list_ret' = [list_ret EXCEPT !.returned = TRUE,
                    !.ret = [rc |-> 0 - 1, status |-> 0, msg |-> "engine error"]]
  /\ list_pc' = "done"
  /\ UNCHANGED <<lst, arr, list_i>>
  /\ UNCHANGED <<coreVars, errVars, concVars, raceVars>>

\* n = number of nodes; arr = calloc(n, sizeof(char*)) gives an array.
ListCallocOk ==
  /\ list_pc = "calloc"
  /\ arr' = [state |-> "live", cells |-> [k \in 1..Len(lst.names) |-> <<>>]]
  /\ list_i' = 0
  /\ list_pc' = "copy"
  /\ UNCHANGED <<lst, list_ret>>
  /\ UNCHANGED <<coreVars, errVars, concVars, raceVars>>

\* calloc returned NULL: libcrun_free_containers_list(lst); return
\* libcrun_make_error(err, errno, "calloc failed").
ListCallocNull ==
  /\ list_pc = "calloc"
  /\ \E e \in CallocErrnos(Len(lst.names)) :
       list_ret' = [list_ret EXCEPT !.returned = TRUE,
                      !.ret = libcrun_make_error(e, "calloc failed")]
  /\ lst' = [lst EXCEPT !.state = "freed", !.released = @ + 1]
  /\ list_pc' = "done"
  /\ UNCHANGED <<arr, list_i>>
  /\ UNCHANGED <<coreVars, errVars, concVars, raceVars>>

\* One turn of the copy loop: arr[i++] = strdup(it->name ? it->name : "");
\* the result of strdup is stored as it is, NULL or not.
ListCopy(ok) ==
  /\ list_pc = "copy"
  /\ list_i < Len(lst.names)
  /\ arr' = [arr EXCEPT !.cells[list_i + 1] = strdup_name(lst.names[list_i + 1], ok)]
  /\ list_i' = list_i + 1
  /\ UNCHANGED <<lst, list_ret, list_pc>>
  /\ UNCHANGED <<coreVars, errVars, concVars, raceVars>>

\* The loop is over: libcrun_free_containers_list(lst); *out = arr;
\* *out_len = n; return 0.
ListReturn ==
  /\ list_pc = "copy"
  /\ list_i = Len(lst.names)
  /\ lst' = [lst EXCEPT !.state = "freed", !.released = @ + 1]
  /\ list_ret' = [returned |-> TRUE, ret |-> Success,
                  out |-> arr, out_len |-> Len(lst.names)]
  /\ list_pc' = "done"
  /\ UNCHANGED <<arr, list_i>>
  /\ UNCHANGED <<coreVars, errVars, concVars, raceVars>>

InitList ==
  /\ list_pc = "idle" /\ lst = NoList /\ arr = NoArr
  /\ list_i = 0 /\ list_ret = NoListRet
(***************************************************************************)
(* go_crun_run_with_pipes called at the same time from several threads of  *)
(* one process. The threads share the process's descriptor table; fork     *)
(* gives the child a copy of the whole table as it is at that moment. The  *)
(* paths followed are those on which pipe and fork succeed; the child's    *)
(* sink and redirection steps, which touch no SyncPipe, are left out.      *)
(***************************************************************************)
Launches == 1..MaxLaunches
\* The ends of the SyncPipe of each launch.
SyncR == <<"syncR1", "syncR2", "syncR3">>
SyncW == <<"syncW1", "syncW2", "syncW3">>
\* The process holds its three standard descriptors.
ProcessFds == [fd \in FDs |-> IF fd <= STDERR_FILENO THEN "tty" ELSE Closed]

\* Live children (of any launch) whose table holds an endpoint.
KidsHolding(end) ==
  {u \in Launches : kpc[u] \notin {"none", "dead"}
                    /\ \E fd \in FDs : kfd[u][fd] = end}
\* Whether some process holds the write end of launch t's SyncPipe.
WriteEndHeld(t) ==
  \/ \E fd \in FDs : shared_fd[fd] = SyncW[t]
  \/ KidsHolding(SyncW[t]) # {}

ConcCall(t) ==
  /\ lpc[t] = "idle"
  /\ lpc' = [lpc EXCEPT ![t] = "pipe"]
  /\ UNCHANGED <<shared_fd, lpipe, ln, kfd, kpc, kbuf>>
  /\ UNCHANGED <<coreVars, errVars, listVars, raceVars>>

\* pipe(error_pipe): the two lowest free descriptors of the shared table.
ConcPipe(t) ==
  /\ lpc[t] = "pipe"
  /\ Cardinality(FreeFds(shared_fd)) >= 2
  /\ LET r == LowestFree(shared_fd)
         w == LowestFree([shared_fd EXCEPT ![r] = SyncR[t]])
     IN /\ lpipe' = [lpipe EXCEPT ![t] = <<r, w>>]
        /\ shared_fd' = [shared_fd EXCEPT ![r] = SyncR[t], ![w] = SyncW[t]]
  /\ lpc' = [lpc EXCEPT ![t] = "fork"]
  /\ UNCHANGED <<ln, kfd, kpc, kbuf>>
  /\ UNCHANGED <<coreVars, errVars, listVars, raceVars>>

\* fork(): the child gets the table of the whole process, the SyncPipe ends
\* of the other threads' launches open at this moment included.
ConcFork(t) ==
  /\ lpc[t] = "fork"
  /\ kfd' = [kfd EXCEPT ![t] = shared_fd]
  /\ kpc' = [kpc EXCEPT ![t] = "close_r"]
  /\ lpc' = [lpc EXCEPT ![t] = "close_w"]
  /\ UNCHANGED <<shared_fd, lpipe, ln, kbuf>>
  /\ UNCHANGED <<coreVars, errVars, listVars, raceVars>>

\* close(error_pipe[1]) in the parent.
ConcParentCloseWrite(t) ==
  /\ lpc[t] = "close_w"
  /\ shared_fd' = Close(shared_fd, lpipe[t][2])
  /\ lpc' = [lpc EXCEPT ![t] = "read"]
  /\ UNCHANGED <<lpipe, ln, kfd, kpc, kbuf>>
  /\ UNCHANGED <<coreVars, errVars, listVars, raceVars>>

\* read(error_pipe[0], &child_errno, 4) returns the buffered value.
ConcReadValue(t) ==
  /\ lpc[t] = "read"
  /\ kbuf[t] # <<>>
  /\ ln' = [ln EXCEPT ![t] = 4]
  /\ kbuf' = [kbuf EXCEPT ![t] = Tail(@)]
  /\ lpc' = [lpc EXCEPT ![t] = "close_r"]
  /\ UNCHANGED <<shared_fd, lpipe, kfd, kpc>>
  /\ UNCHANGED <<coreVars, errVars, listVars, raceVars>>

\* read() returns 0: nothing buffered and no process holds the write end.
ConcReadEof(t) ==
  /\ lpc[t] = "read"
  /\ kbuf[t] = <<>>
  /\ ~WriteEndHeld(t)
  /\ ln' = [ln EXCEPT ![t] = 0]
  /\ lpc' = [lpc EXCEPT ![t] = "close_r"]
  /\ UNCHANGED <<shared_fd, lpipe, kfd, kpc, kbuf>>
  /\ UNCHANGED <<coreVars, errVars, listVars, raceVars>>

\* close(error_pipe[0]) in the parent; the call then returns.
ConcParentCloseRead(t) ==
  /\ lpc[t] = "close_r"
  /\ shared_fd' = Close(shared_fd, lpipe[t][1])
  /\ lpc' = [lpc EXCEPT ![t] = "returned"]
  /\ UNCHANGED <<lpipe, ln, kfd, kpc, kbuf>>
  /\ UNCHANGED <<coreVars, errVars, listVars, raceVars>>

\* close(error_pipe[0]) in the child.
KidCloseRead(t) ==
  /\ kpc[t] = "close_r"
  /\ kfd' = [kfd EXCEPT ![t] = Close(@, lpipe[t][1])]
  /\ kpc' = [kpc EXCEPT ![t] = "write0"]
  /\ UNCHANGED <<shared_fd, lpc, lpipe, ln, kbuf>>
  /\ UNCHANGED <<coreVars, errVars, listVars, raceVars>>

\* write(error_pipe[1], &zero, sizeof(zero)) in the child.
KidWriteZero(t) ==
  /\ kpc[t] = "write0"
  /\ kbuf' = [kbuf EXCEPT ![t] = Append(@, 0)]
  /\ kpc' = [kpc EXCEPT ![t] = "close_w"]
  /\ UNCHANGED <<shared_fd, lpc, lpipe, ln, kfd>>
  /\ UNCHANGED <<coreVars, errVars, listVars, raceVars>>

\* close(error_pipe[1]) in the child; libcrun_container_run then runs, for as
\* long as the container does.
KidCloseWrite(t) ==
  /\ kpc[t] = "close_w"
  /\ kfd' = [kfd EXCEPT ![t] = Close(@, lpipe[t][2])]
  /\ kpc' = [kpc EXCEPT ![t] = "engine"]
  /\ UNCHANGED <<shared_fd, lpc, lpipe, ln, kbuf>>
  /\ UNCHANGED <<coreVars, errVars, listVars, raceVars>>

\* The engine returns and the child calls _exit.
KidExit(t) ==
  /\ kpc[t] = "engine"
  /\ kfd' = [kfd EXCEPT ![t] = NoFds]
  /\ kpc' = [kpc EXCEPT ![t] = "dead"]
  /\ UNCHANGED <<shared_fd, lpc, lpipe, ln, kbuf>>
  /\ UNCHANGED <<coreVars, errVars, listVars, raceVars>>

\* A signal kills the child during its setup.
KidKilled(t) ==
  /\ kpc[t] \in {"close_r", "write0"}
  /\ kfd' = [kfd EXCEPT ![t] = NoFds]
  /\ kpc' = [kpc EXCEPT ![t] = "dead"]
  /\ UNCHANGED <<shared_fd, lpc, lpipe, ln, kbuf>>
  /\ UNCHANGED <<coreVars, errVars, listVars, raceVars>>

InitConc ==
  /\ shared_fd = ProcessFds
  /\ lpc = [t \in Launches |-> "idle"]
  /\ lpipe = [t \in Launches |-> <<-1, -1>>]
  /\ ln = [t \in Launches |-> 0 - 1]
  /\ kfd = [t \in Launches |-> NoFds]
  /\ kpc = [t \in Launches |-> "none"]
  /\ kbuf = [t \in Launches |-> <<>>]
\* No emission and no set or reset call under way; nothing registered yet.
InitRace ==
  /\ cb_pc = "idle" /\ cb_seen = 0 /\ ctl_pc = "idle" /\ registered = {}

InitOther == InitErr /\ InitList /\ InitConc /\ InitRace

(***************************************************************************)
(* Spec: one launch, then go_crun_wait on the handle it returned.          *)
(***************************************************************************)
InitLaunch ==
  /\ pfd = CallerFds /\ args = NoArgs /\ ppc = "idle"
  /\ error_pipe = <<-1, -1>> /\ n = 0 /\ child_errno = 0
  /\ ret = NotReturned /\ out_pid = "unset"
  /\ cfd = NoFds /\ cpc = "none" /\ child_handler = HandlerDefault
  /\ sync = <<>> /\ dup_err = 0 /\ null_err = NoNullErr /\ eng = NoEngine /\ killed_at = "no"
InitWait == wpc = "idle" /\ exit_code = NoExitCode /\ wret = NotReturned
InitLog ==
  /\ go_log_handle = 0 /\ output_handler = HandlerDefault
  /\ lastOp = [op |-> "none", h |-> 0]
  /\ stream = <<>> /\ sent = <<>> /\ goCalls = <<>>

Init ==
  /\ InitLaunch /\ InitWait /\ InitLog /\ InitOther
  /\ cstate = "none" /\ wstatus = 0 /\ intr = 0

\* The caller waits on the handle a successful launch gave it.
WaitOnHandle == ppc = "returned" /\ out_pid = "pid" /\ WaitCall

Next ==
  \/ \E si \in ArgFds, so \in ArgFds, se \in ArgFds, lg \in LogArgFds :
       Call(si, so, se, lg)
  \/ PipeOk \/ PipeFail \/ ForkOk \/ ForkFail
  \/ ParentCloseWrite \/ ParentReadValue \/ ParentReadEof \/ ParentReadIntr
  \/ ParentCheck \/ ParentReap \/ ParentReapIntr
  \/ ChildCloseRead \/ ChildSetLogHandler
  \/ ChildStdinSupplied \/ ChildStdinNull \/ ChildStdinNullOpenFails
  \/ ChildStdout \/ ChildStderr
  \/ ChildFail \/ ChildFailExit \/ ChildWriteZero \/ ChildCloseWrite
  \/ ChildEngine \/ ChildExit \/ ChildKilled
  \/ WaitOnHandle \/ WaitpidIntr \/ WaitpidReap

Spec == Init /\ [][Next]_vars

(***************************************************************************)
(* Properties of the launch (checked under Spec).                          *)
(***************************************************************************)
Returned == ppc = "returned"
SetupFailed(e) == libcrun_make_error(e, "child process setup failed")

\* C1: go_crun_run_with_pipes returns 0 with the child's pid stored in
\* *out_pid exactly when the parent's read returned a full 4-byte value equal
\* to 0; on every other outcome (pipe or fork failure, a read of fewer than 4
\* bytes, a nonzero value) it returns an error (a negative value) and *out_pid
\* is never written. A child killed before it wrote its handshake value never
\* gives a handle.
C1_HandshakeDecidesLaunch ==
  /\ out_pid = "pid" => (Returned /\ ret = Success)
  /\ Returned =>
       /\ (ret = Success /\ out_pid = "pid") <=> (n = 4 /\ child_errno = 0)
       /\ ret # Success => (ret.rc < 0 /\ out_pid = "unset")
       /\ killed_at = "setup" => (ret.rc < 0 /\ out_pid = "unset")

\* C1 witness: a launch has returned 0 with the pid, after a full read of 0.
C1_Witness ==
  Returned /\ ret = Success /\ out_pid = "pid" /\ n = 4 /\ child_errno = 0

\* C2 (as claimed): whenever a checked dup2 failed in the child with code e and
\* the child was not killed, the launch returns the "child process setup
\* failed" error carrying e.
C2_SetupErrnoSurfaces ==
  (Returned /\ dup_err # 0 /\ killed_at = "no") => ret = SetupFailed(dup_err)

\* The endpoint a standard descriptor is asked to refer to.
Requested(fd, default) == IF fd >= 0 THEN CallerFds[fd] ELSE default

\* C3 (as claimed): after a successful launch the engine runs with descriptors
\* 0, 1 and 2 referring to the requested endpoints, or to the inherited stream
\* for stdout and stderr when not supplied. (The null-device default of stdin
\* is C4's statement and is left to it.)
C3_StdioAsRequested ==
  (Returned /\ ret = Success /\ eng.invoked) =>
     /\ args.stdin_fd >= 0 => eng.tbl[STDIN_FILENO] = CallerFds[args.stdin_fd]
     /\ eng.tbl[STDOUT_FILENO] = Requested(args.stdout_fd, "tty_out")
     /\ eng.tbl[STDERR_FILENO] = Requested(args.stderr_fd, "tty_err")

\* C4 (as claimed): with stdin_fd < 0 and a successful launch, the engine's
\* standard input is the null device, never the inherited stdin.
C4_NullStdin ==
  (Returned /\ ret = Success /\ eng.invoked /\ args.stdin_fd < 0) =>
     eng.tbl[STDIN_FILENO] = "null"

\* C5: in the parent, every descriptor the caller held (stdin_fd, stdout_fd,
\* stderr_fd, log_fd among them) refers to the same endpoint throughout the
\* call, and when the call returns, on any path, the parent's descriptor
\* table is what it was at the call: all it closed are the SyncPipe's ends.
C5_CallerFdsUntouched ==
  /\ \A fd \in OpenFds(CallerFds) : pfd[fd] = CallerFds[fd]
  /\ Returned => pfd = CallerFds

\* C5 witness: a launch with all four descriptors supplied has gone through
\* the read and returned.
C5_Witness ==
  /\ Returned /\ error_pipe # <<-1, -1>> /\ cstate # "none"
  /\ args.stdin_fd >= 0 /\ args.stdout_fd >= 0
  /\ args.stderr_fd >= 0 /\ args.log_fd >= 0

\* The child ran the engine and ended through _exit, and go_crun_wait on the
\* handle has returned.
WaitedAfterEngine ==
  /\ wpc = "done" /\ wret = Success
  /\ eng.invoked /\ killed_at = "no"

\* C8 (as claimed): go_crun_wait yields 1 for an engine result rc < 0 and rc
\* itself for every rc >= 0.
C8_ExitCodeIsRc ==
  WaitedAfterEngine => exit_code = (IF eng.rc < 0 THEN 1 ELSE eng.rc)

\* C8 (amended): go_crun_wait yields 1 for an engine result rc < 0 and the low
\* 8 bits of rc (rc mod 256) for rc >= 0, which is rc itself for 0..255.
C8_ExitCodeIsRcMod256 ==
  WaitedAfterEngine => exit_code = (IF eng.rc < 0 THEN 1 ELSE eng.rc % 256)

\* C8 witness: the engine returned 7 and go_crun_wait stored 7.
C8_Witness == WaitedAfterEngine /\ eng.rc = 7 /\ exit_code = 7

\* C13 (as claimed): once a dup2 onto a standard descriptor has failed in the
\* child (of a supplied descriptor, or of the null device onto stdin), the
\* engine is never invoked.
C13_DupFailureStopsChild ==
  (dup_err # 0 \/ null_err.call = "dup2") => ~eng.invoked

\* Descriptors of a table that refer to an end of the SyncPipe.
SyncFds(tbl) == {fd \in FDs : tbl[fd] \in {"syncR", "syncW"}}

\* C14: when go_crun_run_with_pipes returns, on any path, the parent holds no
\* end of the SyncPipe; the child has closed the read end before it does
\* anything else, and holds neither end from the moment it is about to invoke
\* the engine: the engine runs without a SyncPipe descriptor.
C14_SyncPipeNeverLeaks ==
  /\ Returned => SyncFds(pfd) = {}
  /\ cpc \notin {"none", "close_r", "done"} =>
       {fd \in FDs : cfd[fd] = "syncR"} = {}
  /\ cpc \in {"run", "exit"} => SyncFds(cfd) = {}
  /\ eng.invoked => SyncFds(eng.tbl) = {}

\* C14 witness: a launch whose pipe was created has returned success and its
\* engine has been invoked.
C14_Witness ==
  /\ Returned /\ ret = Success /\ eng.invoked
  /\ error_pipe # <<-1, -1>> /\ SyncFds(pfd) = {} /\ SyncFds(eng.tbl) = {}

\* The child has written the handshake value 0 into the SyncPipe: it is in
\* the pipe, or the parent has read it.
ZeroWritten ==
  \/ sync # <<>> /\ Head(sync) = 0
  \/ n = 4 /\ child_errno = 0

\* C15 (as claimed): the value 0 is written only after the redirections of
\* stdin, stdout and stderr have all succeeded.
C15_ZeroAfterRedirections ==
  ZeroWritten => (dup_err = 0 /\ null_err = NoNullErr)

\* C17 (as claimed): when the launch returns an error after a fork, the parent
\* has reaped the child; when it returns success the child is not reaped by
\* the launch, and is reaped exactly when go_crun_wait on the handle is done.
C17_ChildReapedOnce ==
  /\ (Returned /\ ret # Success /\ cstate # "none") => cstate = "reaped"
  /\ (Returned /\ ret = Success) => (cstate = "reaped" <=> wpc = "done")

\* C19 (as claimed): when the launch has returned an error the engine was not
\* invoked in its child, and the child did not write the handshake value 0: a
\* child that wrote 0 always gives a successful return. (Stated for children
\* no signal killed.)
C19_ErrorMeansEngineNeverRan ==
  (Returned /\ ret # Success /\ killed_at = "no") =>
     (~eng.invoked /\ ~ZeroWritten)

\* C21 (as claimed): a log_fd >= 0 being supplied, at the moment the engine is
\* invoked the child's sink is the pipe writer bound to log_fd, and log_fd is
\* open in the child and refers to what it referred to in the caller (the
\* LogChannel), whatever stdin_fd, stdout_fd and stderr_fd are.
C21_LogSinkStillLogChannel ==
  (eng.invoked /\ args.log_fd >= 0) =>
     /\ child_handler = [fn |-> "log_write_to_pipe", arg |-> args.log_fd]
     /\ eng.tbl[child_handler.arg] # Closed
     /\ eng.tbl[child_handler.arg] = CallerFds[args.log_fd]

(***************************************************************************)
(* SpecWait: go_crun_wait on a pid, against every outcome of waitpid. The  *)
(* process waited for is the environment's: it runs, or is no child of the *)
(* caller, and ends with any status word the kernel can report.            *)
(***************************************************************************)
Signals == 1..64
\* Status words the kernel reports: exited with a code, killed by a signal
\* (with or without core), stopped by a signal (a traced child), continued.
ExitedWords == {ExitStatusWord(c) : c \in 0..255}
SignaledWords == {SignalStatusWord(sig, core) : sig \in Signals, core \in {0, 1}}
StoppedWords == {sig * 256 + 127 : sig \in Signals}
ContinuedWords == {65535}
StatusWords == ExitedWords \cup SignaledWords \cup StoppedWords \cup ContinuedWords

InitSpecWait ==
  /\ InitLaunch /\ InitWait /\ InitLog /\ InitOther
  /\ cstate \in {"alive", "none"} /\ wstatus = 0 /\ intr = 0

\* The process waited for changes state with status word st.
EnvChildEnds(st) ==
  /\ cstate = "alive"
  /\ cstate' = "zombie"
  /\ wstatus' = st
  /\ UNCHANGED <<launchVars, intr, waitVars, logVars, otherVars>>

NextWait ==
  \/ \E st \in StatusWords : EnvChildEnds(st)
  \/ WaitCall \/ WaitpidIntr \/ WaitpidNoChild \/ WaitpidReap

SpecWait == InitSpecWait /\ [][NextWait]_vars

\* waitpid handed the child's status to go_crun_wait, which has returned.
WaitReaped == wpc = "done" /\ cstate = "reaped"

\* C6: go_crun_wait returns 0 whenever waitpid delivered a status, and stores
\* c for normal termination with exit code c (0..255), 128 + s for death by
\* signal s (core dumped or not), and -1 for any other status shape.
C6_ExitStatusDecoding ==
  WaitReaped =>
    /\ wret = Success
    /\ \A c \in 0..255 : wstatus = ExitStatusWord(c) => exit_code = c
    /\ \A sig \in Signals, core \in {0, 1} :
         wstatus = SignalStatusWord(sig, core) => exit_code = 128 + sig
    /\ wstatus \notin (ExitedWords \cup SignaledWords) => exit_code = -1

\* C6 witness: the child was killed by signal 9 and go_crun_wait stored 137.
C6_Witness == WaitReaped /\ wstatus = SignalStatusWord(9, 0) /\ exit_code = 137

\* C7: go_crun_wait never returns an EINTR error; interrupted, it waits again
\* and once the child has ended returns 0 with the decoded exit code. A wait
\* failure other than EINTR returns the "waitpid failed" error carrying that
\* errno and leaves *exit_code as it was.
C7_InterruptedWaitRetried ==
  /\ (wpc = "done" /\ wret # Success) =>
        /\ wret = libcrun_make_error(ECHILD, "waitpid failed")
        /\ exit_code = NoExitCode
        /\ cstate # "reaped"
  /\ (wpc = "waitpid" /\ intr > 0) => (wret = NotReturned /\ exit_code = NoExitCode)
  /\ WaitReaped => (wret = Success /\ exit_code = DecodeStatus(wstatus))

\* C7 witness: the wait was interrupted, was issued again, and returned the
\* exit code of a child that exited with 7.
C7_Witness ==
  /\ WaitReaped /\ intr = MaxIntr /\ wret = Success
  /\ wstatus = ExitStatusWord(7) /\ exit_code = 7

(***************************************************************************)
(* The log callback slot and the log sinks.                                *)
(***************************************************************************)
\* What go_crun_set_log_handler installs: crun_set_output_handler(
\* go_crun_log_callback, NULL).
SetSink == [fn |-> "go_crun_log_callback", arg |-> 0]

\* What go_crun_reset_log_handler installs: crun_set_output_handler(
\* log_write_to_stderr, NULL).
ResetSink_null == [fn |-> "NULL", arg |-> 0]
ResetSink == [fn |-> "log_write_to_stderr", arg |-> 0]

\* go_crun_set_log_handler(handle)
go_crun_set_log_handler(handle) ==
  /\ lastOp.op # "child"
  /\ go_log_handle' = handle
  /\ output_handler' = SetSink
  /\ lastOp' = [op |-> "set", h |-> handle]
  /\ UNCHANGED <<stream, sent, goCalls>>
  /\ UNCHANGED <<launchVars, procVars, intr, waitVars, otherVars>>

\* go_crun_reset_log_handler()
go_crun_reset_log_handler ==
  /\ lastOp.op # "child"
  /\ go_log_handle' = 0
  /\ output_handler' = ResetSink
  /\ lastOp' = [op |-> "reset", h |-> 0]
  /\ UNCHANGED <<stream, sent, goCalls>>
  /\ UNCHANGED <<launchVars, procVars, intr, waitVars, otherVars>>

\* The process is the child forked by go_crun_run_with_pipes(..., log_fd, ...):
\* it installs its sink and from then on only runs the engine.
ForkedChildSink(log_fd) ==
  /\ lastOp.op # "child"
  /\ output_handler' = ChildSink(log_fd)
  /\ lastOp' = [op |-> "child", h |-> log_fd]
  /\ UNCHANGED <<go_log_handle, stream, sent, goCalls>>
  /\ UNCHANGED <<launchVars, procVars, intr, waitVars, otherVars>>

\* Little-endian bytes of a 32-bit two's complement value (int32_t written
\* from memory on a little-endian machine).
Int32Bytes(x) ==
  LET u == IF x >= 0 THEN x ELSE (x + 2147483647) + 1   \* x + 2^31
      top == IF x >= 0 THEN 0 ELSE 128
  IN <<u % 256, (u \div 256) % 256, (u \div 65536) % 256,
       (u \div 16777216) + top>>

\* strlen(msg): bytes before the first NUL of the buffer.
RECURSIVE strlen(_)
strlen(msg) ==
  IF msg = <<>> \/ Head(msg) = 0 THEN 0 ELSE 1 + strlen(Tail(msg))

\* Little-endian bytes of a uint32_t (here below 2^31: the model's messages
\* are short).
Uint32Bytes(x) ==
  <<x % 256, (x \div 256) % 256, (x \div 65536) % 256, x \div 16777216>>

\* The bytes log_write_to_pipe(errno_, msg, verbosity, arg) hands to its four
\* write calls: e, v, len = (uint32_t)strlen(msg), then len bytes of msg. (The
\* writes go to a pipe that takes them whole; their results are not looked at.)
log_write_to_pipe_withNul(errno_, msg, verbosity) ==
  Int32Bytes(errno_) \o Int32Bytes(verbosity) \o Uint32Bytes(strlen(msg))
    \o SubSeq(msg, 1, strlen(msg) + 1)
log_write_to_pipe(errno_, msg, verbosity) ==
  Int32Bytes(errno_) \o Int32Bytes(verbosity) \o Uint32Bytes(strlen(msg))
    \o SubSeq(msg, 1, strlen(msg))

\* Bytes a message buffer is made of: NUL, and a byte that is no text (0xFF).
ByteSamples == {0, 255}
\* Message buffers in memory: NUL-terminated, up to MaxBuf bytes.
MsgBuffers ==
  {b \in UNION {[1..k -> ByteSamples] : k \in 1..MaxBuf} : b[Len(b)] = 0}
ErrorCodes == {-2, 0, 16909060}
Verbosities == {0, 2}

\* The LogRecord a call of the output handler carries: its message is the C
\* string in the buffer.
LogRecord(errno_, msg, verbosity) ==
  [errorCode |-> errno_, verbosity |-> verbosity,
   message |-> SubSeq(msg, 1, strlen(msg))]

\* go_crun_log_callback(errno_, msg, verbosity, arg): the handles it passes to
\* goLogCallback (none while go_log_handle is 0).
go_crun_log_callback(calls) ==
  IF go_log_handle # 0 THEN Append(calls, go_log_handle) ELSE calls

\* libcrun logs a record: it calls the installed output handler with its arg.
Emit(errno_, msg, verbosity) ==
  /\ Len(sent) < MaxEmit /\ Len(goCalls) < MaxEmit
  /\ output_handler.fn # "NULL"
  /\ IF output_handler.fn = "log_write_to_pipe"
       THEN /\ stream' = stream \o log_write_to_pipe(errno_, msg, verbosity)
            /\ sent' = Append(sent, LogRecord(errno_, msg, verbosity))
            /\ UNCHANGED goCalls
       ELSE IF output_handler.fn = "go_crun_log_callback"
         THEN /\ goCalls' = go_crun_log_callback(goCalls)
              /\ UNCHANGED <<stream, sent>>
         ELSE UNCHANGED <<stream, sent, goCalls>>
  /\ UNCHANGED <<go_log_handle, output_handler, lastOp>>
  /\ UNCHANGED <<launchVars, procVars, intr, waitVars, otherVars>>

HandleValues == {0, 1, 2}

NextLog ==
  \/ \E h \in HandleValues : go_crun_set_log_handler(h)
  \/ go_crun_reset_log_handler
  \/ \E lg \in {-1, 6} : ForkedChildSink(lg)
  \/ \E e \in ErrorCodes, m \in MsgBuffers, v \in Verbosities : Emit(e, m, v)

InitSpecLog ==
  /\ InitLaunch /\ InitWait /\ InitOther
  /\ go_log_handle = 0 /\ output_handler = HandlerDefault
  /\ lastOp = [op |-> "none", h |-> 0]
  /\ stream = <<>> /\ sent = <<>> /\ goCalls = <<>>
  /\ cstate = "none" /\ wstatus = 0 /\ intr = 0

SpecLog == InitSpecLog /\ [][NextLog]_vars

\* C9: after any sequence of set and reset calls the installed output handler
\* is never null; after go_crun_set_log_handler(h) the stored handle is h and
\* the Go callback wrapper is installed; after go_crun_reset_log_handler() the
\* stored handle is 0 and the stderr-writing sink is installed.
C9_SinkNeverNull ==
  /\ output_handler.fn # "NULL"
  /\ lastOp.op = "set" =>
       (go_log_handle = lastOp.h /\ output_handler.fn = "go_crun_log_callback")
  /\ lastOp.op = "reset" =>
       (go_log_handle = 0 /\ output_handler.fn = "log_write_to_stderr")

\* C9 witness: a reset after a registered nonzero handle had been used.
C9_Witness == lastOp.op = "reset" /\ goCalls # <<>> /\ go_log_handle = 0

\* C16: in the forked child the installed sink is the pipe writer bound to
\* log_fd when log_fd >= 0 and the stderr writer otherwise, whatever handler
\* and handle the parent had registered before the fork; and no record logged
\* in the child goes to goLogCallback.
C16_ChildSinkIsPipeOrStderr ==
  /\ [](lastOp.op = "child" =>
         /\ output_handler.fn # "go_crun_log_callback"
         /\ lastOp.h >= 0 =>
               output_handler = [fn |-> "log_write_to_pipe", arg |-> lastOp.h]
         /\ lastOp.h < 0 =>
               output_handler = [fn |-> "log_write_to_stderr", arg |-> 0])
  /\ [][lastOp.op = "child" => goCalls' = goCalls]_vars

\* C16 witness: a child forked while a Go callback handle was registered and
\* in use has logged a record through the pipe writer bound to its log_fd.
C16_Witness ==
  /\ lastOp = [op |-> "child", h |-> 6]
  /\ go_log_handle # 0 /\ goCalls # <<>> /\ sent # <<>>
  /\ output_handler = [fn |-> "log_write_to_pipe", arg |-> 6]

\* The frame format read back: int32 errorCode, int32 verbosity, uint32 length,
\* then length message bytes; a short frame ends the records.
LeUint(b) == b[1] + 256 * b[2] + 65536 * b[3] + 16777216 * (b[4] % 128)
LeInt32(b) == IF b[4] >= 128 THEN (LeUint(b) - 2147483647) - 1 ELSE LeUint(b)
RECURSIVE FrameDecode(_)
FrameDecode(bytes) ==
  IF Len(bytes) < 12 THEN <<>>
  ELSE LET len == LeUint(SubSeq(bytes, 9, 12))
       IN IF Len(bytes) < 12 + len THEN <<>>
          ELSE <<[errorCode |-> LeInt32(SubSeq(bytes, 1, 4)),
                  verbosity |-> LeInt32(SubSeq(bytes, 5, 8)),
                  message |-> SubSeq(bytes, 13, 12 + len)]>>
               \o FrameDecode(SubSeq(bytes, 13 + len, Len(bytes)))

\* Length of the frames of a sequence of records: 12 header bytes plus the
\* message for each.
RECURSIVE FramedLength(_)
FramedLength(records) ==
  IF records = <<>> THEN 0
  ELSE 12 + Len(Head(records).message) + FramedLength(Tail(records))

\* C10: the bytes log_write_to_pipe emits for a record are its errorCode and
\* verbosity as int32, the message length as uint32 and the message bytes, so
\* that reading the stream back with the frame format gives the records that
\* were emitted, in order and byte for byte, the empty message and messages
\* of non-text bytes included.
C10_FramesRoundTrip ==
  /\ FrameDecode(stream) = sent
  /\ Len(stream) = FramedLength(sent)

\* C10 witness: two records went through the pipe writer, the first with an
\* empty message and a negative errorCode, the second with non-text bytes.
C10_Witness ==
  /\ Len(sent) = 2
  /\ sent[1].message = <<>> /\ sent[1].errorCode < 0
  /\ sent[2].message = <<255, 255>> /\ sent[2].errorCode = 16909060
  /\ FrameDecode(stream) = sent

(***************************************************************************)
(* SpecErr: errors are created in the caller's libcrun_error_t and handed  *)
(* to go_crun_err_to_cstr, in any order and any number of times.           *)
(***************************************************************************)
InitSpecErr ==
  /\ InitLaunch /\ InitWait /\ InitLog /\ InitOther
  /\ cstate = "none" /\ wstatus = 0 /\ intr = 0

NextErr ==
  \/ \E st \in ErrStatuses, m \in ErrMsgs : EngineError(st, m)
  \/ \E ea \in BOOLEAN, sa \in BOOLEAN, ok \in BOOLEAN :
       go_crun_err_to_cstr(ea, sa, ok)

SpecErr == InitSpecErr /\ [][NextErr]_vars

\* C11: no error object is ever released twice, and the caller's error slot
\* never refers to a released object. A call on a non-empty error releases
\* that error exactly once whether or not the string could be allocated,
\* leaves the slot no longer referring to it, stores the error's status and
\* returns the message text or NULL; a call on an absent or empty error
\* returns NULL, stores status 0 and releases nothing.
C11_ErrorConsumedOnce ==
  /\ \A i \in ErrIds : err_heap[i].released <= 1
  /\ err_slot # 0 => err_heap[err_slot].state = "live"
  /\ (cstr.called /\ cstr.id # 0) =>
       /\ cstr.releases = 1
       /\ err_heap[cstr.id].state = "freed" /\ err_heap[cstr.id].released = 1
       /\ err_slot # cstr.id
       /\ cstr.status_arg => cstr.status = err_heap[cstr.id].status
       /\ cstr.p \in {<<>>, <<ErrorText(err_heap[cstr.id].status,
                                        err_heap[cstr.id].msg)>>}
  /\ (cstr.called /\ cstr.id = 0) =>
       /\ cstr.releases = 0 /\ cstr.p = <<>>
       /\ cstr.status_arg => cstr.status = 0

\* C11 witness: a second error was converted when its string could not be
\* allocated, after a first one had been converted; both are released.
C11_Witness ==
  /\ cstr.called /\ cstr.id = 2 /\ cstr.p = <<>> /\ cstr.status = 13
  /\ err_heap[1].released = 1 /\ err_heap[2].released = 1 /\ err_slot = 0

(***************************************************************************)
(* SpecList: one call of go_crun_list, for every list the engine can hand  *)
(* back and every outcome of the allocations.                              *)
(***************************************************************************)
InitSpecList ==
  /\ InitLaunch /\ InitWait /\ InitLog /\ InitOther
  /\ cstate = "none" /\ wstatus = 0 /\ intr = 0

NextList ==
  \/ \E names \in ContainerLists : ListEnumOk(names)
  \/ ListEnumFails
  \/ ListCallocOk \/ ListCallocNull
  \/ \E ok \in BOOLEAN : ListCopy(ok)
  \/ ListReturn

SpecList == InitSpecList /\ [][NextList]_vars

\* go_crun_list has returned after a successful enumeration.
ListedAfterEnum == list_pc = "done" /\ lst.state # "none"

\* C12 (as claimed): when the enumeration succeeds and is empty, go_crun_list
\* returns 0 with *out_len = 0, whatever calloc returned.
C12_EmptyListIsSuccess ==
  (ListedAfterEnum /\ lst.names = <<>>) =>
     (list_ret.ret = Success /\ list_ret.out_len = 0)

\* C18 (as claimed): after a successful enumeration the engine's list is
\* released exactly once; a failed allocation (of the array or of a name)
\* leaves nothing allocated and returns an error; on success every entry of
\* *out is a copied name.
C18_ListBuiltOrReleased ==
  ListedAfterEnum =>
     /\ lst.state = "freed" /\ lst.released = 1
     /\ list_ret.ret = Success =>
          /\ list_ret.out_len = Len(lst.names)
          /\ Len(list_ret.out.cells) = list_ret.out_len
          /\ \A k \in 1..list_ret.out_len :
               list_ret.out.cells[k] = strdup_name(lst.names[k], TRUE)
     /\ list_ret.ret # Success => arr.state # "live"

(***************************************************************************)
(* SpecConc: launches started from several threads of one process.         *)
(***************************************************************************)
InitSpecConc ==
  /\ InitLaunch /\ InitWait /\ InitLog /\ InitOther
  /\ cstate = "none" /\ wstatus = 0 /\ intr = 0

NextConc ==
  \E t \in Launches :
    \/ ConcCall(t) \/ ConcPipe(t) \/ ConcFork(t) \/ ConcParentCloseWrite(t)
    \/ ConcReadValue(t) \/ ConcReadEof(t) \/ ConcParentCloseRead(t)
    \/ KidCloseRead(t) \/ KidWriteZero(t) \/ KidCloseWrite(t)
    \/ KidExit(t) \/ KidKilled(t)

SpecConc == InitSpecConc /\ [][NextConc]_vars

\* C20 (as claimed): once a launch's child has terminated without writing,
\* no process holds the write end of that launch's SyncPipe any more, so the
\* parent's blocked read gets its end-of-file.
C20_ReadNotDelayed ==
  \A t \in Launches :
    (lpc[t] = "read" /\ kpc[t] = "dead" /\ kbuf[t] = <<>>) => ~WriteEndHeld(t)

(***************************************************************************)
(* SpecRace: one thread emits logs through the installed output handler    *)
(* while another thread calls go_crun_set_log_handler and                  *)
(* go_crun_reset_log_handler. go_log_handle is a plain static variable     *)
(* read and written without synchronisation: each access is a step of its  *)
(* own, and the two reads of go_crun_log_callback (the test and the        *)
(* argument of the call) are one load or two, as the build compiles them.  *)
(***************************************************************************)
raceFrame == <<launchVars, procVars, intr, waitVars, errVars, listVars,
               concVars, lastOp, stream, sent>>

\* go_crun_set_log_handler(handle), first statement: go_log_handle = handle.
SetStore(handle) ==
  /\ ctl_pc = "idle"
  /\ go_log_handle' = handle
  /\ registered' = IF handle # 0 THEN registered \cup {handle} ELSE registered
  /\ ctl_pc' = "set_install"
  /\ UNCHANGED <<output_handler, goCalls, cb_pc, cb_seen>>
  /\ UNCHANGED raceFrame

\* go_crun_set_log_handler, second statement:
\* crun_set_output_handler(go_crun_log_callback, NULL).
SetInstall ==
  /\ ctl_pc = "set_install"
  /\ output_handler' = SetSink
  /\ ctl_pc' = "idle"
  /\ UNCHANGED <<go_log_handle, goCalls, cb_pc, cb_seen, registered>>
  /\ UNCHANGED raceFrame

\* go_crun_reset_log_handler(), first statement: go_log_handle = 0.
ResetStore ==
  /\ ctl_pc = "idle"
  /\ go_log_handle' = 0
  /\ ctl_pc' = "reset_install"
  /\ UNCHANGED <<output_handler, goCalls, cb_pc, cb_seen, registered>>
  /\ UNCHANGED raceFrame

\* go_crun_reset_log_handler, second statement:
\* crun_set_output_handler(log_write_to_stderr, NULL).
ResetInstall ==
  /\ ctl_pc = "reset_install"
  /\ output_handler' = ResetSink
  /\ ctl_pc' = "idle"
  /\ UNCHANGED <<go_log_handle, goCalls, cb_pc, cb_seen, registered>>
  /\ UNCHANGED raceFrame

\* libcrun logs a record on the emitting thread: it calls the installed
\* output handler (the stderr writer involves no handle).
RaceEmit ==
  /\ cb_pc = "idle"
  /\ Len(goCalls) < MaxEmit
  /\ cb_pc' = IF output_handler.fn = "go_crun_log_callback" THEN "test"
                                                           ELSE "idle"
  /\ UNCHANGED <<go_log_handle, output_handler, goCalls, cb_seen, ctl_pc,
                 registered>>
  /\ UNCHANGED raceFrame

\* go_crun_log_callback: if (go_log_handle != 0).
CallbackTest ==
  /\ cb_pc = "test"
  /\ cb_seen' = go_log_handle
  /\ cb_pc' = IF go_log_handle # 0 THEN "call" ELSE "idle"
  /\ UNCHANGED <<go_log_handle, output_handler, goCalls, ctl_pc, registered>>
  /\ UNCHANGED raceFrame

\* The value the call passes: the one the test loaded, or go_log_handle
\* loaded again.
HandleArgument(seen, slot) == {seen, slot}

\* go_crun_log_callback: goLogCallback(go_log_handle, errno_, msg, verbosity).
CallbackCall ==
  /\ cb_pc = "call"
  /\ \E h \in HandleArgument(cb_seen, go_log_handle) :
       goCalls' = Append(goCalls, h)
  /\ cb_pc' = "idle"
  /\ UNCHANGED <<go_log_handle, output_handler, cb_seen, ctl_pc, registered>>
  /\ UNCHANGED raceFrame

InitSpecRace ==
  /\ InitLaunch /\ InitWait /\ InitLog /\ InitOther
  /\ cstate = "none" /\ wstatus = 0 /\ intr = 0

NextRace ==
  \/ \E h \in HandleValues : SetStore(h)
  \/ SetInstall \/ ResetStore \/ ResetInstall
  \/ RaceEmit \/ CallbackTest \/ CallbackCall

SpecRace == InitSpecRace /\ [][NextRace]_vars

\* C22 (as claimed): whatever the interleaving of an emission with set and
\* reset calls of another thread, every handle passed to goLogCallback is
\* nonzero and is one that was registered.
C22_NeverHandleZero ==
  \A i \in DOMAIN goCalls : goCalls[i] # 0 /\ goCalls[i] \in registered
====
